---- MODULE Spec2Model ----
(***************************************************************************)
(* polyhedra_wireframe.execute of mesh_tissue/polyhedra.py as a state      *)
(* machine: proportional pre-subdivision, doubled faces, the edge scan     *)
(* that pairs signed face ids, the consolidation pass, the tagging, the    *)
(* wireframe classification and the frame stage.                           *)
(*                                                                         *)
(* Geometry is carried by the input mesh: every edge has an integer        *)
(* length, and a face corner can be a spike (its two adjacent edges fold   *)
(* back on each other, so the half angle of the bisector is 0).  The       *)
(* polar angles of the candidates around an edge come from utils           *)
(* (flatten_vector, vector_rotation); they are inputs drawn from           *)
(* AngleVals at every selection.  thickness only scales lengths            *)
(* (merge_dist, the tangents, the displacement) and dissolve_inners only   *)
(* dissolves edges of the emitted ribbons (512-519); neither is carried.   *)
(*                                                                         *)
(* dual_mesh.execute of mesh_tissue/dual_mesh.py is a second state         *)
(* machine (SpecDual): the loop over the selected objects, the datablocks  *)
(* of bpy.data.meshes with their unique names, and doneMeshes.  The        *)
(* content of a datablock is carried as the number of conversions it has   *)
(* been through.                                                           *)
(*                                                                         *)
(* texture_transform_blender_to_gltf and texture_transform_gltf_to_blender *)
(* of io_scene_gltf2/blender/com/gltf2_blender_conversion.py are operators *)
(* on dicts, applied by SpecTexture.  Their arithmetic is float            *)
(* arithmetic: values are counted in units of 1 / Unit and every result    *)
(* is rounded to Precision significant bits.                               *)
(***************************************************************************)
EXTENDS Integers, Sequences, FiniteSets, TLC

(* ------------------------------ bounds -------------------------------- *)

\* subdivisions ranges over 1..MaxSubs
MaxSubs == 3
\* the edge list of the input mesh is enumerated from offset 0..MaxRot
MaxRot == 1
\* a candidate's polar angle is one of 0..MaxAngle
MaxAngle == 1
\* a fan has 2..MaxFan faces around its edge
MaxFan == 4
\* dual_mesh: bpy.data.objects holds MaxObjects objects
MaxObjects == 3
\* dual_mesh: bpy.data.meshes holds MaxMeshes mesh datablocks at entry
MaxMeshes == 2
\* texture transforms: a float has Precision significant bits
Precision == 2
\* texture transforms: the components of offset and scale are floats of
\* magnitude up to MaxVal, counted in units of 1 / Unit
MaxVal == 6

(* ------------------------- program constants -------------------------- *)

\* min_angle0 = 10000, the sentinel of both minimum searches
min_angle0 == 10000
\* proportional_subs = True
proportional_subs == TRUE
\* id2 = None
None == 0

(* --------------------------- list helpers ----------------------------- *)

\* x in s
Contains(s, x) == \E i \in 1..Len(s) : s[i] = x

\* s.index(x), 0-based, for x in s
IndexOf(s, x) == (CHOOSE i \in 1..Len(s) : s[i] = x /\ \A k \in 1..(i - 1) : s[k] # x) - 1

\* s[j] with Python's indexing: 0-based, a negative j counts from the end
PyAt(s, j) == IF j >= 0 THEN s[j + 1] ELSE s[Len(s) + j + 1]

\* the position (1-based) that s[j] denotes
PyPos(s, j) == IF j >= 0 THEN j + 1 ELSE Len(s) + j + 1

\* verts1.reverse()
Reverse(s) == [i \in 1..Len(s) |-> s[Len(s) + 1 - i]]

\* list(dict.fromkeys(s)): first occurrences, in order
RECURSIVE Dedup(_)
Dedup(s) ==
    IF s = <<>> THEN <<>>
    ELSE LET r == Dedup(SubSeq(s, 1, Len(s) - 1))
         IN  IF Contains(r, s[Len(s)]) THEN r ELSE Append(r, s[Len(s)])

\* max(wire_length)
MaxOf(s) == CHOOSE x \in {s[i] : i \in 1..Len(s)} : \A i \in 1..Len(s) : s[i] <= x

\* the enumeration of a list from offset r (the order the mesh stores its edges in)
Rotate(s, r) == [i \in 1..Len(s) |-> s[((i - 1 + r) % Len(s)) + 1]]

\* the members of a set of integers in ascending order
RECURSIVE Ascending(_)
Ascending(S) ==
    IF S = {} THEN <<>>
    ELSE LET x == CHOOSE y \in S : \A z \in S : y <= z
         IN  <<x>> \o Ascending(S \ {x})

\* the radial cycle of an edge read from each of its starting points
Rotations(s) == {Rotate(s, r) : r \in 0..(Len(s) - 1)}

(* ---------------------------- input meshes ---------------------------- *)
(* faces: vertex indices in winding order; edges: vertex pairs; len: the   *)
(* length of each edge; spikes: triples <<a, v, b>>, the corner at v of    *)
(* the face through a, v, b has half angle 0.                              *)

\* a closed cube, every edge traversed in opposite directions by its 2 faces
Cube ==
    [faces |-> << <<0, 1, 2, 3>>, <<7, 6, 5, 4>>, <<0, 4, 5, 1>>,
                  <<1, 5, 6, 2>>, <<2, 6, 7, 3>>, <<3, 7, 4, 0>> >>,
     edges |-> << <<0, 1>>, <<1, 2>>, <<2, 3>>, <<0, 3>>, <<6, 7>>, <<5, 6>>,
                  <<4, 5>>, <<4, 7>>, <<0, 4>>, <<1, 5>>, <<2, 6>>, <<3, 7>> >>,
     nverts |-> 8,
     len |-> <<2, 2, 2, 2, 2, 2, 2, 2, 2, 2, 2, 2>>,
     spikes |-> {}]

\* a closed tetrahedron whose last face is wound against the other three
Tetra ==
    [faces |-> << <<0, 1, 2>>, <<0, 3, 1>>, <<1, 3, 2>>, <<0, 3, 2>> >>,
     edges |-> << <<0, 1>>, <<1, 2>>, <<0, 2>>, <<0, 3>>, <<1, 3>>, <<2, 3>> >>,
     nverts |-> 4,
     len |-> <<3, 2, 3, 2, 3, 3>>,
     spikes |-> {}]

\* two tetrahedra touching along the edge 0-1, which carries 4 faces
TwinTetra ==
    [faces |-> << <<0, 1, 2>>, <<0, 3, 1>>, <<1, 3, 2>>, <<2, 3, 0>>,
                  <<0, 1, 4>>, <<0, 5, 1>>, <<1, 5, 4>>, <<4, 5, 0>> >>,
     edges |-> << <<1, 2>>, <<0, 2>>, <<0, 3>>, <<1, 3>>, <<2, 3>>, <<1, 4>>,
                  <<0, 4>>, <<0, 5>>, <<1, 5>>, <<4, 5>>, <<0, 1>> >>,
     nverts |-> 6,
     len |-> <<2, 2, 2, 2, 2, 2, 2, 2, 2, 2, 2>>,
     spikes |-> {}]

\* a tetrahedron with one face missing: three naked edges
OpenTetra ==
    [faces |-> << <<0, 1, 2>>, <<0, 3, 1>>, <<1, 3, 2>> >>,
     edges |-> << <<0, 1>>, <<1, 2>>, <<0, 2>>, <<0, 3>>, <<1, 3>>, <<2, 3>> >>,
     nverts |-> 4,
     len |-> <<2, 2, 2, 2, 2, 2>>,
     spikes |-> {}]

\* one triangle whose three vertices coincide: naked edges of length 0
PointTriangle ==
    [faces |-> << <<0, 1, 2>> >>,
     edges |-> << <<0, 1>>, <<1, 2>>, <<0, 2>> >>,
     nverts |-> 3,
     len |-> <<0, 0, 0>>,
     spikes |-> {}]

\* the 6-vertex triangulation of the projective plane: closed, every edge
\* has 2 faces, and no choice of windings makes all neighbours consistent
ProjectivePlane ==
    [faces |-> << <<0, 1, 2>>, <<0, 1, 3>>, <<0, 2, 4>>, <<0, 3, 5>>, <<0, 4, 5>>,
                  <<1, 2, 5>>, <<1, 3, 4>>, <<1, 4, 5>>, <<2, 3, 4>>, <<2, 3, 5>> >>,
     edges |-> << <<0, 1>>, <<1, 2>>, <<0, 2>>, <<1, 3>>, <<0, 3>>, <<2, 4>>,
                  <<0, 4>>, <<3, 5>>, <<0, 5>>, <<4, 5>>, <<2, 5>>, <<1, 5>>,
                  <<3, 4>>, <<1, 4>>, <<2, 3>> >>,
     nverts |-> 6,
     len |-> <<2, 2, 2, 2, 2, 2, 2, 2, 2, 2, 2, 2, 2, 2, 2>>,
     spikes |-> {}]

\* the cube's topology with vertex 2 moved onto the segment 0-1: in the face
\* through 0, 1, 2 the corner at vertex 1 folds back (0 and 2 lie on one ray
\* from 1), so vec0.angle(vec1) = pi there and the half angle is 0
SpikeCube ==
    [faces |-> Cube.faces,
     edges |-> Cube.edges,
     nverts |-> 8,
     len |-> <<2, 1, 1, 1, 2, 2, 2, 2, 2, 2, 2, 2>>,
     spikes |-> {<<0, 1, 2>>}]

Meshes == <<Cube, Tetra, TwinTetra, OpenTetra, PointTriangle, ProjectivePlane, SpikeCube>>

(* ------------------------------- state -------------------------------- *)

VARIABLES
    me,                 \* the input mesh (an index into Meshes)
    rot,                \* the offset its edges are enumerated from
    subdivisions,       \* the operator's property subdivisions
    angle_vals,         \* the values utils can return as the angle of a candidate
    around,             \* for a fan: the angular position of every face around the edge
    pc,                 \* the position of execute
    status,             \* "RUNNING", {'FINISHED'}, {'CANCELLED'} or the exception raised
    reported,           \* the messages given to self.report
    objects,            \* the objects linked to the collection, in order
    bm,                 \* the working copy of the input mesh
    segments,           \* per input edge, the number of segments it was split into
    bm1,                \* the doubled-face mesh, later the frame mesh: its faces
    polyhedra,          \* the list of polyhedra, each a list of signed ids
    e_idx, link, i1, done,   \* the edge scan: edge, e.link_faces, i1, done
    pairings,           \* history: the pairings {id1, id2} merged so far
    sel,                \* history: the selection the last step made, <<>> if none
    partners,           \* history: the ids selected as id2 at the current edge
    polyhedra0,         \* history: the list as the edge scan left it
    p_idx,              \* the classification: the position of p in polyhedra
    table_stale,        \* faces of bm1 were added or removed since the last refresh
    stale_lookup,       \* history: bm1.faces[i] was evaluated on a stale table
    delete_faces, wireframe_faces, not_wireframe_faces, flat_faces,
    \* dual_mesh.execute
    mode,               \* context.mode at entry
    bpy_objects,        \* bpy.data.objects: per object its type and its data
    objects0,           \* history: bpy.data.objects at entry
    meshes,             \* bpy.data.meshes: per datablock its name and content
    selection,          \* sel: the objects execute loops over
    ob0,                \* the position of ob0 in sel
    mesh_name,          \* mesh_name
    clones,             \* clones
    doneMeshes,         \* doneMeshes
    runs,               \* history: per datablock of entry, the conversions run on it
    \* texture_transform_blender_to_gltf, texture_transform_gltf_to_blender
    transform,          \* the dict the next conversion is applied to
    transform0,         \* history: the dict the conversions started from
    applied             \* history: the conversions applied, in order

vars == <<me, rot, subdivisions, angle_vals, around, pc, status, reported,
          objects, bm, segments, bm1, polyhedra, e_idx, link, i1, done, pairings,
          sel, partners, polyhedra0, delete_faces, wireframe_faces, not_wireframe_faces, flat_faces, p_idx,
          table_stale, stale_lookup,
          mode, bpy_objects, objects0, meshes, selection, ob0, mesh_name, clones,
          doneMeshes, runs, transform, transform0, applied>>

texture == <<transform, transform0, applied>>
dual == <<mode, bpy_objects, objects0, meshes, selection, ob0, mesh_name, clones,
          doneMeshes, runs>>
config == <<me, rot, subdivisions, angle_vals, around>>
scan == <<e_idx, link, i1, done, sel, partners>>
table == <<table_stale, stale_lookup>>
lists == <<polyhedra0, delete_faces, wireframe_faces, not_wireframe_faces, flat_faces, p_idx>>

\* bm.from_mesh(me): the faces and edges of the input mesh
FromMesh(m, r) ==
    [faces |-> Meshes[m].faces,
     edges |-> Rotate(Meshes[m].edges, r),
     nverts |-> Meshes[m].nverts]

\* the state at the entry of execute, whatever the angles are drawn from
\* no texture transform is being converted
TextureIdle ==
    /\ transform = <<>> /\ transform0 = <<>> /\ applied = <<>>

\* dual_mesh.execute is not running
DualIdle ==
    /\ mode = "OBJECT"
    /\ bpy_objects = <<>> /\ objects0 = <<>> /\ meshes = <<>>
    /\ selection = <<>> /\ ob0 = 0
    /\ mesh_name = <<>> /\ clones = <<>> /\ doneMeshes = <<>>
    /\ runs = <<>>

Entry ==
    /\ DualIdle
    /\ TextureIdle
    /\ me \in 1..Len(Meshes)
    /\ rot \in 0..MaxRot
    /\ subdivisions \in 1..MaxSubs
    /\ around = <<>>
    /\ pc = "subdivide"
    /\ status = "RUNNING"
    /\ reported = <<>>
    /\ objects = <<>>
    /\ bm = FromMesh(me, rot)
    /\ segments = [i \in 1..Len(Meshes[me].edges) |-> 1]
    /\ bm1 = <<>>
    /\ polyhedra = <<>>
    /\ e_idx = 0 /\ link = <<>> /\ i1 = 0 /\ done = <<>>
    /\ pairings = {}
    /\ sel = <<>> /\ partners = {}
    /\ polyhedra0 = <<>>
    /\ delete_faces = <<>> /\ wireframe_faces = <<>>
    /\ not_wireframe_faces = <<>> /\ flat_faces = <<>>
    /\ p_idx = 0
    /\ table_stale = FALSE /\ stale_lookup = FALSE

(* ----------------------- the face table of bm1 ------------------------- *)

\* n evaluations of bm1.faces[i]
Lookups(n) == [k \in 1..n |-> "lookup"]

\* n calls of bm1.faces.new
News(n) == [k \in 1..n |-> "new"]

\* the table after the operations ops from position k on: faces.new,
\* remove_doubles and delete leave it stale, ensure_lookup_table refreshes
\* it, bm1.faces[i] reads it
RECURSIVE RunOps(_, _, _, _)
RunOps(ops, k, stale, bad) ==
    IF k > Len(ops) THEN <<stale, bad>>
    ELSE IF ops[k] = "ensure" THEN RunOps(ops, k + 1, FALSE, bad)
    ELSE IF ops[k] = "lookup" THEN RunOps(ops, k + 1, stale, bad \/ stale)
    ELSE RunOps(ops, k + 1, TRUE, bad)

\* a stage of execute runs the operations ops on the faces of bm1
FaceTable(ops) ==
    /\ table_stale' = RunOps(ops, 1, table_stale, stale_lookup)[1]
    /\ stale_lookup' = RunOps(ops, 1, table_stale, stale_lookup)[2]

(* ----------------------- subdivide edges (96-109) ---------------------- *)

\* wire_length = [e.calc_length() for e in bm.edges]
WireLength(m, r) == Rotate(Meshes[m].len, r)

\* int(l // max_segment) with max_segment = max(wire_length)/subs
Bucket(l, maxl, subs) == (l * subs) \div maxl

\* the face f with the new vertices put between a and b where f runs along a-b
InsertVerts(f, a, b, news) ==
    IF ~(Contains(f, a) /\ Contains(f, b)) THEN f
    ELSE LET n == Len(f)
             ia == IndexOf(f, a)
             ib == IndexOf(f, b)
         IN  IF ib = (ia + 1) % n
             THEN SubSeq(f, 1, ia + 1) \o news \o SubSeq(f, ia + 2, n)
             ELSE IF ia = (ib + 1) % n
             THEN SubSeq(f, 1, ib + 1) \o Reverse(news) \o SubSeq(f, ib + 2, n)
             ELSE f

\* bmesh.ops.bisect_edges on one edge: cuts new vertices, cuts + 1 segments
BisectEdge(b, ei, cuts) ==
    LET a == b.edges[ei][1]
        z == b.edges[ei][2]
        news == [k \in 1..cuts |-> b.nverts + k - 1]
    IN  [faces |-> [k \in 1..Len(b.faces) |-> InsertVerts(b.faces[k], a, z, news)],
         edges |-> [b.edges EXCEPT ![ei] = <<a, news[1]>>]
                   \o [k \in 1..cuts |-> <<news[k], IF k < cuts THEN news[k + 1] ELSE z>>],
         nverts |-> b.nverts + cuts]

\* bisect_edges(bm, edges=split_edges[i], cuts=i), the edges of bucket i from ei on
RECURSIVE BisectBucket(_, _, _, _)
BisectBucket(b, buckets, i, ei) ==
    IF ei > Len(buckets) THEN b
    ELSE BisectBucket(IF buckets[ei] = i THEN BisectEdge(b, ei, i) ELSE b, buckets, i, ei + 1)

\* for i in range(2, subs): bisect the edges of bucket i
RECURSIVE BisectLoop(_, _, _, _)
BisectLoop(b, buckets, i, subs) ==
    IF i >= subs THEN b
    ELSE BisectLoop(BisectBucket(b, buckets, i, 1), buckets, i + 1, subs)

\* split_edges: the bucket of every edge
SplitEdges(wl, subs) == [ei \in 1..Len(wl) |-> Bucket(wl[ei], MaxOf(wl), subs)]

\* the number of segments an edge of bucket k ends with
SegmentsOf(k, subs) == IF 2 <= k /\ k < subs THEN k + 1 ELSE 1

Raise(exc) ==
    /\ status' = exc
    /\ pc' = "end"

Subdivide ==
    /\ pc = "subdivide"
    /\ UNCHANGED table
    /\ IF subdivisions > 1 /\ proportional_subs
       THEN LET wl == WireLength(me, rot)
            IN  IF MaxOf(wl) = 0
                THEN \* l // max_segment with max_segment = 0.0
                     /\ Raise("ZeroDivisionError")
                     /\ UNCHANGED <<bm, segments>>
                ELSE /\ bm' = BisectLoop(bm, SplitEdges(wl, subdivisions), 2, subdivisions)
                     /\ segments' = [ei \in 1..Len(wl) |->
                                        SegmentsOf(SplitEdges(wl, subdivisions)[ei], subdivisions)]
                     /\ pc' = "double"
                     /\ UNCHANGED status
       ELSE /\ pc' = "double"
            /\ UNCHANGED <<bm, segments, status>>
    /\ UNCHANGED <<config, dual, texture, reported, objects, bm1, polyhedra, scan, pairings, lists>>

(* --------------------- create double faces (111-138) ------------------ *)

\* a variant of DoubleFaces that appends the reversed loop first
RECURSIVE DoubleFacesReversedFirst(_)
DoubleFacesReversedFirst(faces) ==
    IF faces = <<>> THEN <<>>
    ELSE DoubleFacesReversedFirst(SubSeq(faces, 1, Len(faces) - 1))
         \o <<Reverse(faces[Len(faces)]), faces[Len(faces)]>>

\* double_faces: verts0, then verts1 reversed, for every face
RECURSIVE DoubleFaces(_)
DoubleFaces(faces) ==
    IF faces = <<>> THEN <<>>
    ELSE DoubleFaces(SubSeq(faces, 1, Len(faces) - 1))
         \o <<faces[Len(faces)], Reverse(faces[Len(faces)])>>

\* bm1.faces.new(new_verts) for every entry of double_faces
NewFace(verts, isRibbon) == [co |-> verts, material_index |-> 0, ribbon |-> isRibbon]

\* 126-135: bm1.faces.new per doubled face, then ensure_lookup_table
CreateOps == News(2 * Len(bm.faces)) \o <<"ensure">>

CreateDoubleFaces ==
    /\ pc = "double"
    /\ FaceTable(CreateOps)
    /\ bm1' = [k \in 1..(2 * Len(bm.faces)) |-> NewFace(DoubleFaces(bm.faces)[k], FALSE)]
    /\ polyhedra' = <<>>
    /\ e_idx' = 1
    /\ pc' = "scan"
    /\ UNCHANGED <<config, dual, texture, status, reported, objects, bm, segments, link, i1, done,
                   sel, partners, pairings, lists>>

n_faces == Len(bm.faces)
n_doubles == Len(bm1)

(* --------------------------- edge scan (142-244) ---------------------- *)

\* e.link_faces as a set of face indices: the faces that run along the edge
LinkFaces(b, e) ==
    {k \in 0..(Len(b.faces) - 1) :
        LET f == b.faces[k + 1]
        IN  /\ Contains(f, e[1]) /\ Contains(f, e[2])
            /\ \/ IndexOf(f, e[1]) = (IndexOf(f, e[2]) + 1) % Len(f)
               \/ IndexOf(f, e[2]) = (IndexOf(f, e[1]) + 1) % Len(f)}

\* e.link_faces: the radial cycle of the edge, entered at any of its faces
LinkOrders(b, e) ==
    IF LinkFaces(b, e) = {} THEN {<<>>} ELSE Rotations(Ascending(LinkFaces(b, e)))

\* a variant of Dir that forgets the wrap-around of the loop
DirNoWrap(b, e, k) ==
    LET verts == b.faces[k + 1]
    IN  IndexOf(verts, e[1]) = IndexOf(verts, e[2]) + 1

\* dir1 = va1 == (vb1+1) % len(verts1)
Dir(b, e, k) ==
    LET verts == b.faces[k + 1]
    IN  IndexOf(verts, e[1]) = (IndexOf(verts, e[2]) + 1) % Len(verts)

\* a variant of Faces2 with the consistency test inverted (dir1 == dir2)
Faces2Inverted(b, e, lf, i) ==
    [k \in 1..(Len(lf) - 1 - i) |->
        IF Dir(b, e, lf[i + 1]) = Dir(b, e, lf[i + 1 + k])
        THEN lf[i + 1 + k] + 1 ELSE -(lf[i + 1 + k] + 1)]

\* faces2: for i2 in range(i1+1, e_faces), f2 signed by normal consistency
Faces2(b, e, lf, i) ==
    [k \in 1..(Len(lf) - 1 - i) |->
        LET f1 == lf[i + 1]
            f2 == lf[i + 1 + k]
        IN  IF Dir(b, e, f1) # Dir(b, e, f2) THEN f2 + 1 ELSE -(f2 + 1)]

AngleVals == 0..MaxAngle

\* an angle that is not below the sentinel (a NaN: angle < min_angle is False)
UndefinedAngle == min_angle0

\* the run starts with angles in [0, 2 pi)
Init == Entry /\ angle_vals = AngleVals

\* the run starts on the tetrahedron, whose geometry gives angles in
\* [0, 2 pi) or, its coordinates being undefined, undefined angles
InitUndefinedAngles ==
    /\ Entry
    /\ me = 2 /\ subdivisions = 1
    /\ angle_vals \in {AngleVals, {UndefinedAngle}}

\* a variant of MinSearch that replaces the choice when angle <= min_angle
RECURSIVE MinSearchLastWins(_, _, _, _, _, _)
MinSearchLastWins(faces2, angles, sign, k, id2, min_angle) ==
    IF k > Len(faces2) THEN id2
    ELSE IF angles[k] <= min_angle
         THEN MinSearchLastWins(faces2, angles, sign, k + 1, sign * faces2[k], angles[k])
         ELSE MinSearchLastWins(faces2, angles, sign, k + 1, id2, min_angle)

\* the minimum search: a candidate replaces the choice when angle < min_angle
RECURSIVE MinSearch(_, _, _, _, _, _)
MinSearch(faces2, angles, sign, k, id2, min_angle) ==
    IF k > Len(faces2) THEN id2
    ELSE IF angles[k] < min_angle
         THEN MinSearch(faces2, angles, sign, k + 1, sign * faces2[k], angles[k])
         ELSE MinSearch(faces2, angles, sign, k + 1, id2, min_angle)

\* the sign a half gives to the candidate it selects
HalfSign(half) == IF half = "positive" THEN 1 ELSE -1

\* id2 of the positive search (id2 = i2)
SelectPositive(faces2, angles) == MinSearch(faces2, angles, 1, 1, None, min_angle0)

\* a variant of SelectNegative that keeps the sign of the candidate (id2 = i2)
SelectNegativeSameSign(faces2, angles) == MinSearch(faces2, angles, 1, 1, None, min_angle0)

\* id2 of the negative search (id2 = -i2)
SelectNegative(faces2, angles) == MinSearch(faces2, angles, -1, 1, None, min_angle0)

\* the first polyhedron holding id1 or id2 (0: none), searching from position k
RECURSIVE FirstHolding(_, _, _, _)
FirstHolding(ps, id1, id2, k) ==
    IF k > Len(ps) THEN 0
    ELSE IF Contains(ps[k], id1) \/ Contains(ps[k], id2) THEN k
    ELSE FirstHolding(ps, id1, id2, k + 1)

\* a variant of AddMissing that appends id2 only
AddMissingId2(p, id1, id2) == IF Contains(p, id2) THEN p ELSE Append(p, id2)

\* p with id2, then id1, appended where missing
AddMissing(p, id1, id2) ==
    LET q == IF Contains(p, id2) THEN p ELSE Append(p, id2)
    IN  IF Contains(q, id1) THEN q ELSE Append(q, id1)

\* a variant of MergePair without the break: every holder gains the ids
MergePairEveryHolder(ps, id1, id2) ==
    IF FirstHolding(ps, id1, id2, 1) = 0 THEN Append(ps, <<id1, id2>>)
    ELSE [k \in 1..Len(ps) |->
             IF Contains(ps[k], id1) \/ Contains(ps[k], id2)
             THEN AddMissing(ps[k], id1, id2) ELSE ps[k]]

\* add to existing polyhedron, or start new polyhedron
MergePair(ps, id1, id2) ==
    LET k == FirstHolding(ps, id1, id2, 1)
    IN  IF k = 0 THEN Append(ps, <<id1, id2>>)
        ELSE [ps EXCEPT ![k] = AddMissing(ps[k], id1, id2)]

CurEdge == bm.edges[e_idx]

\* for e in bm.edges: done = [], the naked edge check
EdgeStart ==
    /\ pc = "scan"
    /\ UNCHANGED table
    /\ \E lf \in LinkOrders(bm, CurEdge) :
          /\ link' = lf
          /\ done' = <<>>
          /\ i1' = 0
          /\ sel' = <<>>
          /\ partners' = {}
          /\ IF Len(lf) < 2
             THEN /\ reported' = Append(reported, "Naked edges are not allowed")
                  /\ status' = "CANCELLED"
                  /\ pc' = "end"
             ELSE /\ pc' = "positive"
                  /\ UNCHANGED <<reported, status>>
    /\ UNCHANGED <<config, dual, texture, objects, bm, segments, bm1, polyhedra, e_idx, pairings, lists>>

\* the record of one selection: the root, its candidates and their angles
Selection(half, faces2, angles, id1, id2) ==
    [half |-> half, e |-> CurEdge, f1 |-> link[i1 + 1],
     cands |-> [k \in 1..Len(faces2) |-> link[i1 + 1 + k]],
     faces2 |-> faces2, angles |-> angles, id1 |-> id1, id2 |-> id2]

\* a variant of PositiveStep that does not append id2 to done
PositiveStepNoAppend(angles) ==
    LET faces2 == Faces2(bm, CurEdge, link, i1)
        id1 == link[i1 + 1] + 1
        id2 == SelectPositive(faces2, angles)
    IN  IF ~Contains(done, id1)
        THEN /\ done' = done
             /\ polyhedra' = MergePair(polyhedra, id1, id2)
             /\ pairings' = pairings \cup {{id1, id2}}
             /\ sel' = <<Selection("positive", faces2, angles, id1, id2)>>
             /\ partners' = partners \cup ({id2} \ {None})
        ELSE /\ sel' = <<>>
             /\ UNCHANGED <<done, polyhedra, pairings, partners>>

\* find first polyhedra (positive), the candidates having the given angles
PositiveStep(angles) ==
    LET faces2 == Faces2(bm, CurEdge, link, i1)
        id1 == link[i1 + 1] + 1
        id2 == SelectPositive(faces2, angles)
    IN  IF ~Contains(done, id1)
        THEN /\ done' = IF id2 # None THEN Append(done, id2) ELSE done
             /\ polyhedra' = MergePair(polyhedra, id1, id2)
             /\ pairings' = pairings \cup {{id1, id2}}
             /\ sel' = <<Selection("positive", faces2, angles, id1, id2)>>
             /\ partners' = partners \cup ({id2} \ {None})
        ELSE /\ sel' = <<>>
             /\ UNCHANGED <<done, polyhedra, pairings, partners>>

\* a variant of NegativeStep that does not append id2 to done
NegativeStepNoAppend(angles) ==
    LET faces2 == Faces2(bm, CurEdge, link, i1)
        id1 == -(link[i1 + 1] + 1)
        id2 == SelectNegative(faces2, angles)
    IN  IF ~Contains(done, id1)
        THEN /\ done' = done
             /\ polyhedra' = MergePair(polyhedra, id1, id2)
             /\ pairings' = pairings \cup {{id1, id2}}
             /\ sel' = <<Selection("negative", faces2, angles, id1, id2)>>
             /\ partners' = partners \cup ({id2} \ {None})
        ELSE /\ sel' = <<>>
             /\ UNCHANGED <<done, polyhedra, pairings, partners>>

\* find second polyhedra (negative), the candidates having the given angles
NegativeStep(angles) ==
    LET faces2 == Faces2(bm, CurEdge, link, i1)
        id1 == -(link[i1 + 1] + 1)
        id2 == SelectNegative(faces2, angles)
    IN  IF ~Contains(done, id1)
        THEN /\ done' = Append(done, id2)
             /\ polyhedra' = MergePair(polyhedra, id1, id2)
             /\ pairings' = pairings \cup {{id1, id2}}
             /\ sel' = <<Selection("negative", faces2, angles, id1, id2)>>
             /\ partners' = partners \cup ({id2} \ {None})
        ELSE /\ sel' = <<>>
             /\ UNCHANGED <<done, polyhedra, pairings, partners>>

\* the end of the body of "for i1": the next i1, the next edge or the end of the scan
NextRoot ==
    IF i1 + 1 < Len(link) - 1
    THEN /\ i1' = i1 + 1
         /\ pc' = "positive"
         /\ UNCHANGED e_idx
    ELSE /\ i1' = i1
         /\ e_idx' = e_idx + 1
         /\ pc' = IF e_idx < Len(bm.edges) THEN "scan" ELSE "consolidate"

\* the positive half of one i1, the angles being any values utils can return
PositiveHalf ==
    /\ pc = "positive"
    /\ UNCHANGED table
    /\ \E angles \in [1..Len(Faces2(bm, CurEdge, link, i1)) -> angle_vals] :
          PositiveStep(angles)
    /\ pc' = "negative"
    /\ UNCHANGED <<config, dual, texture, status, reported, objects, bm, segments, bm1, e_idx, link,
                   i1, lists>>

\* the negative half of one i1, then the next i1 or the next edge
NegativeHalf ==
    /\ pc = "negative"
    /\ UNCHANGED table
    /\ \E angles \in [1..Len(Faces2(bm, CurEdge, link, i1)) -> angle_vals] :
          NegativeStep(angles)
    /\ NextRoot
    /\ UNCHANGED <<config, dual, texture, status, reported, objects, bm, segments, bm1, link, lists>>

(* ------------------------ consolidation (246-257) --------------------- *)

\* a variant of JoinOf that takes the members of the last holder only
RECURSIVE JoinOfLastHolder(_, _)
JoinOfLastHolder(ps, id) ==
    IF ps = <<>> THEN <<>>
    ELSE IF Contains(ps[Len(ps)], id) THEN ps[Len(ps)]
    ELSE JoinOfLastHolder(SubSeq(ps, 1, Len(ps) - 1), id)

\* join += p for the polyhedra holding id
RECURSIVE JoinOf(_, _)
JoinOf(ps, id) ==
    IF ps = <<>> THEN <<>>
    ELSE JoinOf(SubSeq(ps, 1, Len(ps) - 1), id)
         \o (IF Contains(ps[Len(ps)], id) THEN ps[Len(ps)] ELSE <<>>)

\* keep: the polyhedra not holding id
RECURSIVE KeepOf(_, _)
KeepOf(ps, id) ==
    IF ps = <<>> THEN <<>>
    ELSE KeepOf(SubSeq(ps, 1, Len(ps) - 1), id)
         \o (IF Contains(ps[Len(ps)], id) THEN <<>> ELSE <<ps[Len(ps)]>>)

\* a variant of JoinId that appends the join to the whole list instead of keep
JoinIdKeepAll(ps, id) ==
    IF Len(JoinOf(ps, id)) > 0
    THEN Append(ps, Dedup(JoinOf(ps, id)))
    ELSE ps

\* one id of the pass: if len(join) > 0, polyhedra = keep + [dedup(join)]
JoinId(ps, id) ==
    IF Len(JoinOf(ps, id)) > 0
    THEN Append(KeepOf(ps, id), Dedup(JoinOf(ps, id)))
    ELSE ps

\* for i in range(len(bm1.faces)): for j in (False, True), from i on
RECURSIVE ConsolidateFrom(_, _, _)
ConsolidateFrom(ps, i, n) ==
    IF i >= n \/ Len(ps) = 0 THEN ps
    ELSE ConsolidateFrom(JoinId(JoinId(ps, -(i + 1)), i + 1), i + 1, n)

Consolidation(ps, n) == ConsolidateFrom(ps, 0, n)

Consolidate ==
    /\ pc = "consolidate"
    /\ UNCHANGED table
    /\ polyhedra' = Consolidation(polyhedra, n_doubles)
    /\ polyhedra0' = polyhedra
    /\ sel' = <<>>
    /\ pc' = "tag"
    /\ UNCHANGED <<config, dual, texture, status, reported, objects, bm, segments, bm1, e_idx, link, i1,
                   done, partners, pairings,
                   delete_faces, wireframe_faces, not_wireframe_faces, flat_faces, p_idx>>

(* ------------------------- tagging (259-261) -------------------------- *)

\* for j in p: bm1.faces[j].material_index = i, the members of p from k on
RECURSIVE TagMembers(_, _, _, _)
TagMembers(faces, p, k, i) ==
    IF k > Len(p) \/ Len(faces) = 0 THEN faces
    ELSE TagMembers([faces EXCEPT ![PyPos(faces, p[k])].material_index = i], p, k + 1, i)

\* for i, p in enumerate(polyhedra), from position k on
RECURSIVE TagPolyhedra(_, _, _)
TagPolyhedra(faces, ps, k) ==
    IF k > Len(ps) \/ Len(faces) = 0 THEN faces
    ELSE TagPolyhedra(TagMembers(faces, ps[k], 1, k - 1), ps, k + 1)

\* 259-261: bm1.faces[j] for every member of every polyhedron
RECURSIVE TagOpsFrom(_)
TagOpsFrom(k) ==
    IF k > Len(polyhedra) THEN <<>> ELSE Lookups(Len(polyhedra[k])) \o TagOpsFrom(k + 1)

TagOps == TagOpsFrom(1)

Tag ==
    /\ pc = "tag"
    /\ FaceTable(TagOps)
    /\ IF \E k \in 1..Len(polyhedra) : Contains(polyhedra[k], None)
       THEN \* bm1.faces[None]
            /\ Raise("TypeError")
            /\ UNCHANGED <<bm1, p_idx>>
       ELSE /\ bm1' = TagPolyhedra(bm1, polyhedra, 1)
            /\ p_idx' = 1
            /\ pc' = IF Len(polyhedra) > 0 THEN "classify" ELSE "polyhedra_ob"
            /\ UNCHANGED status
    /\ UNCHANGED <<config, dual, texture, reported, objects, bm, segments, polyhedra, scan, pairings,
                   polyhedra0, delete_faces, wireframe_faces, not_wireframe_faces,
                   flat_faces>>

(* ----------------------- classification (279-337) --------------------- *)

\* the face index of one signed id: (f-1)*2 if f > 0 else (-f-1)*2+1
FaceId(f) == IF f > 0 THEN (f - 1) * 2 ELSE (-f - 1) * 2 + 1

\* the face index of the opposite instance: (-f-1)*2 if -f > 0 else (f-1)*2+1
FaceIdNeg(f) == IF -f > 0 THEN (-f - 1) * 2 ELSE (f - 1) * 2 + 1

faces_id(p) == [k \in 1..Len(p) |-> FaceId(p[k])]
faces_id_neg(p) == [k \in 1..Len(p) |-> FaceIdNeg(p[k])]

\* a variant of IsThin in which the test is on and every face is thin
IsThinAlways(f) == TRUE

\* the thinness test is switched off: if False
IsThin(f) == FALSE

\* wireframe_faces_poly: the faces of p not in delete_faces and not thin
WireframeFacesPoly(p, del) ==
    LET keep(f) == ~Contains(del, f) /\ ~IsThin(f)
    IN  SelectSeq(faces_id(p), keep)

\* delete_faces_poly: the faces of p not in delete_faces that are thin
DeleteFacesPoly(p, del) ==
    LET flat(f) == ~Contains(del, f) /\ IsThin(f)
    IN  SelectSeq(faces_id(p), flat)

\* a variant of ClassifyOps without the refresh after the weld
ClassifyOpsNoRefresh(p) == Lookups(Len(p)) \o <<"remove_doubles">>

\* 287, 330-332: bm1.faces[f_id] per member, remove_doubles, ensure_lookup_table
ClassifyOps(p) == Lookups(Len(p)) \o <<"remove_doubles", "ensure">>

\* the body of "for p in polyhedra"
ClassifyPoly ==
    /\ pc = "classify"
    /\ FaceTable(ClassifyOps(polyhedra[p_idx]))
    /\ LET p == polyhedra[p_idx]
           wireframe_faces_poly == WireframeFacesPoly(p, delete_faces)
           delete_faces_poly == DeleteFacesPoly(p, delete_faces)
       IN  IF Len(wireframe_faces_poly) < 2
           THEN /\ delete_faces' = delete_faces \o faces_id(p)
                /\ not_wireframe_faces' = not_wireframe_faces \o faces_id_neg(p)
                /\ UNCHANGED <<wireframe_faces, flat_faces>>
           ELSE /\ wireframe_faces' = wireframe_faces \o wireframe_faces_poly
                /\ flat_faces' = flat_faces \o delete_faces_poly
                /\ UNCHANGED <<delete_faces, not_wireframe_faces>>
    /\ p_idx' = p_idx + 1
    /\ pc' = IF p_idx < Len(polyhedra) THEN "classify" ELSE "polyhedra_ob"
    /\ UNCHANGED <<config, dual, texture, status, reported, objects, bm, segments, bm1, polyhedra, scan,
                   pairings, polyhedra0>>

\* 336-348: the final lists, then the object "Polyhedra"
EmitPolyhedra ==
    /\ pc = "polyhedra_ob"
    /\ UNCHANGED table
    /\ LET kept(f) == ~Contains(not_wireframe_faces, f)
       IN  wireframe_faces' = Dedup(SelectSeq(wireframe_faces, kept))
    /\ flat_faces' = Dedup(flat_faces)
    /\ objects' = Append(objects, "Polyhedra")
    /\ pc' = "frame"
    /\ UNCHANGED <<config, dual, texture, status, reported, bm, segments, bm1, polyhedra, scan, pairings,
                   polyhedra0, delete_faces, not_wireframe_faces, p_idx>>

(* --------------------------- frame (350-447) -------------------------- *)

\* whether corner i (0-based) of the loop co folds back on itself
IsSpike(co, i) ==
    \E t \in Meshes[me].spikes :
        co[i + 1] = t[2] /\ Contains(co, t[1]) /\ Contains(co, t[3])

\* sin(ang) of corner i, ang = (pi - vec0.angle(vec1))/2: 0, or a positive value
SinHalfAngle(co, i) == IF IsSpike(co, i) THEN 0 ELSE 1

\* whether x / d raises ZeroDivisionError
DivisionRaises(d) == d = 0

\* whether the tangents of the loop co can be computed: /sin(ang) for every corner
TangentsRaise(co) == \E i \in 0..(Len(co) - 1) : DivisionRaises(SinHalfAngle(co, i))

\* the ribbon quads of one loop: one per edge of the loop
Ribbons(co) ==
    [i \in 1..Len(co) |-> NewFace(<<co[i], co[(i % Len(co)) + 1]>>, TRUE)]

\* the ribbons of the loops from position k on
RECURSIVE AllRibbons(_, _, _)
AllRibbons(faces, wf, k) ==
    IF k > Len(wf) THEN <<>>
    ELSE Ribbons(faces[wf[k] + 1].co) \o AllRibbons(faces, wf, k + 1)

\* 352, 437, 456: bm1.faces[i] per wireframe face, faces.new per ribbon,
\* ensure_lookup_table after the loops
FrameOps ==
    Lookups(Len(wireframe_faces))
    \o News(Len(AllRibbons(bm1, wireframe_faces, 1)))
    \o <<"ensure">>

Frame ==
    /\ pc = "frame"
    /\ IF \E k \in 1..Len(wireframe_faces) : TangentsRaise(bm1[wireframe_faces[k] + 1].co)
       THEN /\ Raise("ZeroDivisionError")
            /\ FaceTable(Lookups(Len(wireframe_faces)))
            /\ UNCHANGED bm1
       ELSE /\ bm1' = bm1 \o AllRibbons(bm1, wireframe_faces, 1)
            /\ FaceTable(FrameOps)
            /\ pc' = "displace"
            /\ UNCHANGED status
    /\ UNCHANGED <<config, dual, texture, reported, objects, bm, segments, polyhedra, scan, pairings, lists>>

(* --------------------- displace vertices (459-491) -------------------- *)

\* the values sin(ang) of a corner's average angle is drawn from
SineVals == 0..1

\* div = sin(ang); if div == 0: div = 1
GuardedDiv(sine) == IF sine = 0 THEN 1 ELSE sine

Displace ==
    /\ pc = "displace"
    /\ UNCHANGED table
    /\ \E sine \in SineVals :
          IF DivisionRaises(GuardedDiv(sine))
          THEN /\ Raise("ZeroDivisionError")
          ELSE /\ pc' = "delete"
               /\ UNCHANGED status
    /\ UNCHANGED <<config, dual, texture, reported, objects, bm, segments, bm1, polyhedra, scan, pairings,
                   lists>>

(* ------------------ delete, weld, dissolve, emit (493-543) ------------ *)

\* the faces of bm1 whose index is not in del
RemoveFaces(faces, del) ==
    LET stays(k) == ~Contains(del, k - 1)
        RECURSIVE Keep(_)
        Keep(k) == IF k > Len(faces) THEN <<>>
                   ELSE (IF stays(k) THEN <<faces[k]>> ELSE <<>>) \o Keep(k + 1)
    IN  Keep(1)

\* 495, 504-508: bm1.faces[i] per flat face and per face to delete, delete,
\* remove_doubles, ensure_lookup_table
DeleteOps ==
    Lookups(Len(flat_faces))
    \o Lookups(Len(Dedup(delete_faces \o wireframe_faces)))
    \o <<"delete", "remove_doubles", "ensure">>

\* 493-510: delete_faces + the original wireframe faces, deleted from bm1
DeleteFaces ==
    /\ pc = "delete"
    /\ FaceTable(DeleteOps)
    /\ delete_faces' = Dedup(delete_faces \o wireframe_faces)
    /\ bm1' = RemoveFaces(bm1, Dedup(delete_faces \o wireframe_faces))
    /\ pc' = "dissolve"
    /\ UNCHANGED <<config, dual, texture, status, reported, objects, bm, segments, polyhedra, scan,
                   pairings, polyhedra0, wireframe_faces, not_wireframe_faces, flat_faces,
                   p_idx>>

\* 521-543: the object "Wireframe", return {'FINISHED'}
EmitWireframe ==
    /\ pc = "dissolve"
    /\ UNCHANGED table
    /\ objects' = Append(objects, "Wireframe")
    /\ status' = "FINISHED"
    /\ pc' = "end"
    /\ UNCHANGED <<config, dual, texture, reported, bm, segments, bm1, polyhedra, scan, pairings, lists>>

Next ==
    \/ Subdivide
    \/ CreateDoubleFaces
    \/ EdgeStart
    \/ PositiveHalf
    \/ NegativeHalf
    \/ Consolidate
    \/ Tag
    \/ ClassifyPoly
    \/ EmitPolyhedra
    \/ Frame
    \/ Displace
    \/ DeleteFaces
    \/ EmitWireframe

Spec == Init /\ [][Next]_vars

(* ------------- one edge with k faces at distinct angles --------------- *)

\* k triangles around the edge 0-1, face j running along it from 1 to 0
\* when dirs[j + 1], from 0 to 1 otherwise
FanMesh(k, dirs) ==
    [faces |-> [j \in 1..k |-> IF dirs[j] THEN <<1, 0, j + 1>> ELSE <<0, 1, j + 1>>],
     edges |-> <<<<0, 1>>>>,
     nverts |-> k + 2]

\* the assignments of the positions 0..k-1 to the k faces, face 0 at 0
Arrangements(k) ==
    {a \in [1..k -> 0..(k - 1)] : a[1] = 0 /\ \A i, j \in 1..k : a[i] = a[j] => i = j}

\* the angle of every candidate of the root F[i1] when the positive
\* (negative) selection sweeps from the root to the side its normal
\* (the opposite of its normal) points to: the number of positions passed
GeoAngles(half) ==
    LET k == Len(link)
        f1 == link[i1 + 1]
        turn == (IF Dir(bm, CurEdge, f1) THEN 1 ELSE -1) * HalfSign(half)
    IN  [c \in 1..(k - 1 - i1) |->
            (turn * (around[link[i1 + 1 + c] + 1] - around[f1 + 1]) + k) % k]

\* the scan is at the first root of the edge of a fan
InitFan ==
    /\ DualIdle
    /\ TextureIdle
    /\ me = 0 /\ rot = 0 /\ subdivisions = 1
    /\ angle_vals = {}
    /\ \E k \in 2..MaxFan :
          /\ \E dirs \in [1..k -> BOOLEAN] : bm = FanMesh(k, dirs)
          /\ around \in Arrangements(k)
          /\ link = [j \in 1..k |-> j - 1]
          /\ segments = <<1>>
          /\ bm1 = [j \in 1..(2 * k) |-> NewFace(DoubleFaces(bm.faces)[j], FALSE)]
    /\ pc = "positive"
    /\ status = "RUNNING"
    /\ reported = <<>> /\ objects = <<>>
    /\ polyhedra = <<>>
    /\ e_idx = 1 /\ i1 = 0 /\ done = <<>>
    /\ pairings = {}
    /\ sel = <<>> /\ partners = {}
    /\ polyhedra0 = <<>>
    /\ delete_faces = <<>> /\ wireframe_faces = <<>>
    /\ not_wireframe_faces = <<>> /\ flat_faces = <<>>
    /\ p_idx = 0
    /\ table_stale = FALSE /\ stale_lookup = FALSE

\* the positive half of one i1, the angles being those of the arrangement
FanPositive ==
    /\ pc = "positive"
    /\ PositiveStep(GeoAngles("positive"))
    /\ pc' = "negative"
    /\ UNCHANGED <<config, dual, texture, status, reported, objects, bm, segments, bm1, e_idx, link,
                   i1, lists, table>>

\* the negative half of one i1, then the next i1 or the end of the edge
FanNegative ==
    /\ pc = "negative"
    /\ NegativeStep(GeoAngles("negative"))
    /\ NextRoot
    /\ UNCHANGED <<config, dual, texture, status, reported, objects, bm, segments, bm1, link, lists,
                   table>>

NextFan == FanPositive \/ FanNegative

\* the processing of one edge whose faces lie at distinct angles
SpecFan == InitFan /\ [][NextFan]_vars

\* the runs in which utils can return undefined angles
SpecUndefinedAngles == InitUndefinedAngles /\ [][Next]_vars

(* ------------------------ dual_mesh.execute --------------------------- *)

\* the variables of polyhedra_wireframe.execute
wireframe == <<config, scan, table, lists, reported, objects, bm, segments, bm1,
               polyhedra, pairings>>

\* the names of the datablocks ds of ms; a name is <<base, number>>,
\* number 0 for the bare name, n for the suffix .00n
NamesOf(ms, ds) == {ms[d].name : d \in ds}

\* bpy.data.meshes keeps names unique: a name in use is replaced by its base
\* with the lowest number not in use
UniqueName(x, used) ==
    IF x \notin used THEN x
    ELSE <<x[1], CHOOSE n \in 1..(Cardinality(used) + 1) :
                     /\ <<x[1], n>> \notin used
                     /\ \A t \in 1..(n - 1) : <<x[1], t>> \in used>>

\* ob.data.copy(): a new datablock of the same content under a unique name
MeshCopy(ms, d) ==
    Append(ms, [name |-> UniqueName(ms[d].name, NamesOf(ms, 1..Len(ms))),
                duals |-> ms[d].duals,
                origin |-> ms[d].origin])

\* the datablocks of ms other than d that hold the name x
HoldersOfName(ms, d, x) == {e \in (1..Len(ms)) \ {d} : ms[e].name = x}

\* ob0.data.name = x where the assigned datablock gets a numbered name when
\* another datablock holds x
SetNameNumbered(ms, d, x) ==
    [ms EXCEPT ![d].name = UniqueName(x, NamesOf(ms, (1..Len(ms)) \ {d}))]

\* ob0.data.name = x where the datablock that holds x gives it up and gets
\* a numbered name
SetNameTaken(ms, d, x) ==
    [e \in 1..Len(ms) |->
        IF e = d THEN [ms[e] EXCEPT !.name = x]
        ELSE IF e \in HoldersOfName(ms, d, x)
             THEN [ms[e] EXCEPT !.name =
                      UniqueName(x, {x} \cup NamesOf(ms, (1..Len(ms)) \ {d, e}))]
             ELSE ms[e]]

\* the object ob0 of the loop, its datablock and the name of its datablock
Ob0 == selection[ob0]
Ob0Data == bpy_objects[Ob0].data
Ob0DataName == meshes[Ob0Data].name

\* the objects, each of no data (type EMPTY) or of one of the datablocks
ObjectsOf(data) ==
    [o \in 1..MaxObjects |->
        [type |-> IF data[o] = 0 THEN "EMPTY" ELSE "MESH", data |-> data[o]]]

\* the datablocks of entry: the first is named <<1, 0>>, datablock d has a
\* base of its own when d \in own and is named <<1, d - 1>> otherwise
MeshesOf(own) ==
    [d \in 1..MaxMeshes |->
        [name |-> IF d = 1 \/ d \in own THEN <<d, 0>> ELSE <<1, d - 1>>,
         duals |-> 0,
         origin |-> d]]

\* 169-178: mode, act, sel, doneMeshes = []
InitDual ==
    /\ TextureIdle
    /\ me = 0 /\ rot = 0 /\ subdivisions = 1 /\ angle_vals = {} /\ around = <<>>
    /\ reported = <<>> /\ objects = <<>>
    /\ bm = <<>> /\ segments = <<>> /\ bm1 = <<>>
    /\ polyhedra = <<>>
    /\ e_idx = 0 /\ link = <<>> /\ i1 = 0 /\ done = <<>>
    /\ pairings = {}
    /\ sel = <<>> /\ partners = {}
    /\ polyhedra0 = <<>>
    /\ delete_faces = <<>> /\ wireframe_faces = <<>>
    /\ not_wireframe_faces = <<>> /\ flat_faces = <<>>
    /\ p_idx = 0
    /\ table_stale = FALSE /\ stale_lookup = FALSE
    /\ status = "RUNNING"
    /\ \E data \in [1..MaxObjects -> 0..MaxMeshes] : bpy_objects = ObjectsOf(data)
    /\ objects0 = bpy_objects
    /\ \E own \in SUBSET (2..MaxMeshes) : meshes = MeshesOf(own)
    /\ mode \in {"OBJECT", "EDIT_MESH"}
    /\ IF mode # "OBJECT"
       THEN \E act \in 1..MaxObjects :
               /\ bpy_objects[act].type = "MESH"
               /\ selection = <<act>>
       ELSE \E S \in SUBSET (1..MaxObjects) : selection = Ascending(S)
    /\ ob0 = 1
    /\ mesh_name = <<>> /\ clones = <<>>
    /\ doneMeshes = <<>>
    /\ runs = [d \in 1..MaxMeshes |-> 0]
    /\ pc = "for_ob0"

\* 181-182: if ob0.type != 'MESH': continue
SkipNotMesh ==
    /\ pc = "for_ob0"
    /\ ob0 <= Len(selection)
    /\ bpy_objects[Ob0].type # "MESH"
    /\ ob0' = ob0 + 1
    /\ UNCHANGED <<wireframe, texture, pc, status, mode, bpy_objects, objects0, meshes,
                   selection, mesh_name, clones, doneMeshes, runs>>

\* 183-184: if ob0.data.name in doneMeshes: continue
SkipDone ==
    /\ pc = "for_ob0"
    /\ ob0 <= Len(selection)
    /\ bpy_objects[Ob0].type = "MESH"
    /\ Contains(doneMeshes, Ob0DataName)
    /\ ob0' = ob0 + 1
    /\ UNCHANGED <<wireframe, texture, pc, status, mode, bpy_objects, objects0, meshes,
                   selection, mesh_name, clones, doneMeshes, runs>>

\* 185-199: mesh_name and the objects whose data has this name
StoreClones ==
    /\ pc = "for_ob0"
    /\ ob0 <= Len(selection)
    /\ bpy_objects[Ob0].type = "MESH"
    /\ ~Contains(doneMeshes, Ob0DataName)
    /\ mesh_name' = Ob0DataName
    /\ clones' = Ascending({o \in 1..Len(bpy_objects) :
                               /\ bpy_objects[o].type = "MESH"
                               /\ meshes[bpy_objects[o].data].name = Ob0DataName})
    /\ pc' = "copy"
    /\ UNCHANGED <<wireframe, texture, status, mode, bpy_objects, objects0, meshes,
                   selection, ob0, doneMeshes, runs>>

\* 201-203: ob.data = ob.data.copy(); object.convert writes the evaluated
\* mesh into the data and leaves names and users alone
CopyData ==
    /\ pc = "copy"
    /\ meshes' = MeshCopy(meshes, Ob0Data)
    /\ bpy_objects' = [bpy_objects EXCEPT ![Ob0].data = Len(meshes')]
    /\ pc' = "convert"
    /\ UNCHANGED <<wireframe, texture, status, mode, objects0, selection, ob0, mesh_name,
                   clones, doneMeshes, runs>>

\* 204-320: the conversion steps, on the data of ob
ConvertSteps ==
    /\ pc = "convert"
    /\ meshes' = [meshes EXCEPT ![Ob0Data].duals = @ + 1]
    /\ runs' = [runs EXCEPT ![meshes[Ob0Data].origin] = @ + 1]
    /\ pc' = "rename"
    /\ UNCHANGED <<wireframe, texture, status, mode, bpy_objects, objects0, selection, ob0,
                   mesh_name, clones, doneMeshes>>

\* 321-322: ob0.data.name = mesh_name, doneMeshes.append(mesh_name); which
\* datablock gets the numbered name when mesh_name is in use is the host's
Rename ==
    /\ pc = "rename"
    /\ \/ meshes' = SetNameNumbered(meshes, Ob0Data, mesh_name)
       \/ meshes' = SetNameTaken(meshes, Ob0Data, mesh_name)
    /\ doneMeshes' = Append(doneMeshes, mesh_name)
    /\ pc' = "relink"
    /\ UNCHANGED <<wireframe, texture, status, mode, bpy_objects, objects0, selection, ob0,
                   mesh_name, clones, runs>>

\* 324-326: for o in clones: o.data = ob.data, and the next ob0
Relink ==
    /\ pc = "relink"
    /\ bpy_objects' = [o \in 1..Len(bpy_objects) |->
                          IF Contains(clones, o)
                          THEN [bpy_objects[o] EXCEPT !.data = Ob0Data]
                          ELSE bpy_objects[o]]
    /\ ob0' = ob0 + 1
    /\ pc' = "for_ob0"
    /\ UNCHANGED <<wireframe, texture, status, mode, objects0, meshes, selection, mesh_name,
                   clones, doneMeshes, runs>>

\* 328-334: the selection and the mode are restored, return {'FINISHED'}
DualFinish ==
    /\ pc = "for_ob0"
    /\ ob0 > Len(selection)
    /\ status' = "FINISHED"
    /\ pc' = "end"
    /\ UNCHANGED <<wireframe, texture, dual>>

NextDual ==
    \/ SkipNotMesh
    \/ SkipDone
    \/ StoreClones
    \/ CopyData
    \/ ConvertSteps
    \/ Rename
    \/ Relink
    \/ DualFinish

SpecDual == InitDual /\ [][NextDual]_vars

(* ----------------- the texture transform conversions ------------------ *)

\* the float 1.0 in the units the values are counted in
Unit == 2

Abs(n) == IF n < 0 THEN -n ELSE n

\* the spacing of the floats around the magnitude a / scale
RECURSIVE Quantum(_, _, _)
Quantum(a, scale, q) ==
    IF a < (2 ^ Precision) * q * scale THEN q ELSE Quantum(a, scale, 2 * q)

\* the multiple of q nearest to a >= 0, a tie going to the even multiple
RoundTo(a, q) ==
    LET lo == a \div q
        r  == a % q
    IN  IF 2 * r < q THEN lo * q
        ELSE IF 2 * r > q THEN (lo + 1) * q
        ELSE IF lo % 2 = 0 THEN lo * q ELSE (lo + 1) * q

\* the float nearest to n / scale
FlScaled(n, scale) ==
    LET a == Abs(n)
        q == Quantum(a, scale, 1)
        m == RoundTo(a, q * scale) \div scale
    IN  IF n < 0 THEN -m ELSE m

\* float addition, subtraction and multiplication
FlAdd(a, b) == FlScaled(a + b, 1)
FlSub(a, b) == FlScaled(a - b, 1)
FlMul(a, b) == FlScaled(a * b, Unit)

\* the floats of magnitude up to MaxVal
Floats == {n \in (-MaxVal)..MaxVal : FlScaled(n, 1) = n}

\* rotation is an angle in steps of 30 degrees; sin and cos are the floats
\* math.sin and math.cos return for it
TextureRotations == {0, 1, 3, 7}
sin(rotation) ==
    <<0, 1, 2, 2, 2, 1, 0, -1, -2, -2, -2, -1>>[(rotation % 12) + 1]
cos(rotation) == sin(rotation + 3)

\* d.get(key, default)
Get(d, key, default) == IF key \in DOMAIN d THEN d[key] ELSE default

\* the dict {'offset': offset, 'rotation': rotation, 'scale': scale}
Dict(offset, rotation, scale) ==
    [key \in {"offset", "rotation", "scale"} |->
        IF key = "offset" THEN offset
        ELSE IF key = "rotation" THEN rotation
        ELSE scale]

\* a variant of texture_transform_gltf_to_blender that subtracts
\* scale[1] * sin(rotation) as the export does
texture_transform_gltf_to_blender_minus(texture_transform) ==
    LET offset   == Get(texture_transform, "offset", <<0, 0>>)
        rotation == Get(texture_transform, "rotation", 0)
        scale    == Get(texture_transform, "scale", <<Unit, Unit>>)
    IN  Dict(<<FlSub(offset[1], FlMul(scale[2], sin(rotation))),
               FlSub(FlSub(Unit, offset[2]), FlMul(scale[2], cos(rotation)))>>,
             rotation,
             <<scale[1], scale[2]>>)

\* 12-27
texture_transform_blender_to_gltf(mapping_transform) ==
    LET offset   == Get(mapping_transform, "offset", <<0, 0>>)
        rotation == Get(mapping_transform, "rotation", 0)
        scale    == Get(mapping_transform, "scale", <<Unit, Unit>>)
    IN  Dict(<<FlSub(offset[1], FlMul(scale[2], sin(rotation))),
               FlSub(FlSub(Unit, offset[2]), FlMul(scale[2], cos(rotation)))>>,
             rotation,
             <<scale[1], scale[2]>>)

\* 29-44
texture_transform_gltf_to_blender(texture_transform) ==
    LET offset   == Get(texture_transform, "offset", <<0, 0>>)
        rotation == Get(texture_transform, "rotation", 0)
        scale    == Get(texture_transform, "scale", <<Unit, Unit>>)
    IN  Dict(<<FlAdd(offset[1], FlMul(scale[2], sin(rotation))),
               FlSub(FlSub(Unit, offset[2]), FlMul(scale[2], cos(rotation)))>>,
             rotation,
             <<scale[1], scale[2]>>)

\* polyhedra_wireframe.execute is not running
WireframeIdle ==
    /\ me = 0 /\ rot = 0 /\ subdivisions = 1 /\ angle_vals = {} /\ around = <<>>
    /\ reported = <<>> /\ objects = <<>>
    /\ bm = <<>> /\ segments = <<>> /\ bm1 = <<>>
    /\ polyhedra = <<>>
    /\ e_idx = 0 /\ link = <<>> /\ i1 = 0 /\ done = <<>>
    /\ pairings = {}
    /\ sel = <<>> /\ partners = {}
    /\ polyhedra0 = <<>>
    /\ delete_faces = <<>> /\ wireframe_faces = <<>>
    /\ not_wireframe_faces = <<>> /\ flat_faces = <<>>
    /\ p_idx = 0
    /\ table_stale = FALSE /\ stale_lookup = FALSE

\* the dicts a conversion is called with: any of the three keys can be
\* missing; the first component of scale, which is only copied, is 1.0 or 1.5
Transforms ==
    {[key \in keys |-> Dict(offset, rotation, scale)[key]] :
        keys \in SUBSET {"offset", "rotation", "scale"},
        offset \in Floats \X Floats,
        rotation \in TextureRotations,
        scale \in {Unit, 3} \X Floats}

InitTexture ==
    /\ WireframeIdle
    /\ DualIdle
    /\ pc = "texture"
    /\ status = "RUNNING"
    /\ transform \in Transforms
    /\ transform0 = transform
    /\ applied = <<>>

\* the export converts the dict
BlenderToGltf ==
    /\ pc = "texture"
    /\ Len(applied) < 2
    /\ transform' = texture_transform_blender_to_gltf(transform)
    /\ applied' = Append(applied, "blender_to_gltf")
    /\ UNCHANGED <<wireframe, dual, pc, status, transform0>>

\* the import converts the dict
GltfToBlender ==
    /\ pc = "texture"
    /\ Len(applied) < 2
    /\ transform' = texture_transform_gltf_to_blender(transform)
    /\ applied' = Append(applied, "gltf_to_blender")
    /\ UNCHANGED <<wireframe, dual, pc, status, transform0>>

NextTexture == BlenderToGltf \/ GltfToBlender

SpecTexture == InitTexture /\ [][NextTexture]_vars

(* ============================== claims ================================ *)

\* the signed ids of the face instances: +(k+1) and -(k+1) for face k
SignedIds == {f \in (-n_faces)..n_faces : f # 0}

\* a polyhedron as the set of its members
IdSet(p) == {p[k] : k \in 1..Len(p)}

\* a polyhedra list as a set of id sets
PolySets(ps) == {IdSet(ps[k]) : k \in 1..Len(ps)}

\* the positions of the polyhedra of ps that hold id
Holders(ps, id) == {k \in 1..Len(ps) : Contains(ps[k], id)}

\* the consolidation pass has run
Consolidated ==
    \/ pc \in {"tag", "classify", "polyhedra_ob", "frame", "displace", "delete", "dissolve"}
    \/ pc = "end" /\ Len(objects) > 0

\* every edge of the input mesh has at least 2 incident faces
NoNakedEdges ==
    \A i \in 1..Len(Meshes[me].edges) :
        Cardinality(LinkFaces(Meshes[me], Meshes[me].edges[i])) >= 2

\* every edge of the input mesh has exactly 2 incident faces
TwoFacesPerEdge ==
    \A i \in 1..Len(Meshes[me].edges) :
        Cardinality(LinkFaces(Meshes[me], Meshes[me].edges[i])) = 2

\* the ids a chain of pairings links to a member of S
RECURSIVE Linked(_)
Linked(S) ==
    LET T == S \cup UNION {pr \in pairings : pr \cap S # {}}
    IN  IF T = S THEN S ELSE Linked(T)

\* the connected components, among the ids of nodes, of the graph of the
\* pairings
RECURSIVE ComponentsOf(_)
ComponentsOf(nodes) ==
    IF nodes = {} THEN {}
    ELSE LET x == CHOOSE y \in nodes : TRUE
             c == Linked({x})
         IN  {c} \cup ComponentsOf(nodes \ c)

Components == ComponentsOf(UNION pairings)

\* C1: after the consolidation pass every signed face-instance id is a
\* member of at most one polyhedron of the final list.
C1_AtMostOnePolyhedron ==
    Consolidated => \A id \in SignedIds : Cardinality(Holders(polyhedra, id)) <= 1

\* the pass has run on a list in which some id was held by two polyhedra
C1_Witness ==
    /\ pc = "tag"
    /\ NoNakedEdges
    /\ \E id \in SignedIds : Cardinality(Holders(polyhedra0, id)) >= 2
    /\ Len(polyhedra) < Len(polyhedra0)

\* C2: the final list, read as a set of id sets, is the set of connected
\* components of the graph of the pairings emitted by the edge scan, and
\* no component is listed twice.
C2_ConnectedComponents ==
    Consolidated =>
        /\ PolySets(polyhedra) = Components
        /\ Len(polyhedra) = Cardinality(Components)

\* the pass joined polyhedra of the scan, and one component has more members
\* than a single pairing gives
C2_Witness ==
    /\ pc = "tag"
    /\ Len(polyhedra) < Len(polyhedra0)
    /\ Len(polyhedra) >= 2
    /\ \E k \in 1..Len(polyhedra) : Len(polyhedra[k]) > 2
    /\ Cardinality(pairings) > Len(polyhedra)

\* the input mesh has the topology of the closed cube
IsCube == Meshes[me].faces = Cube.faces

\* C4: for the closed cube the scan and the consolidation yield exactly 2
\* polyhedra, the six positive ids and the six negative ids, whatever the
\* order of the edges and of the faces of each edge.
C4_CubeTwoPolyhedra ==
    (Consolidated /\ IsCube) =>
        /\ Len(polyhedra) = 2
        /\ PolySets(polyhedra) = {1..6, {-f : f \in 1..6}}

\* the cube has been scanned from the second edge on and consolidated
C4_Witness ==
    /\ pc = "tag"
    /\ IsCube
    /\ rot = 1
    /\ Cardinality(pairings) = 24

\* some polyhedron holds both orientations of a face
BothOrientations ==
    \E k \in 1..Len(polyhedra) : \E f \in 1..n_faces :
        Contains(polyhedra[k], f) /\ Contains(polyhedra[k], -f)

\* the faces of the input mesh can be flipped so that the two faces of every
\* edge run along it in opposite directions
Orientable ==
    LET m == Meshes[me]
        n == Len(m.faces)
        \* the pairs of faces of an edge, with whether they run along it in
        \* the same direction
        adjacent == UNION {LET lf == LinkFaces(m, m.edges[i])
                           IN  {<<pr[1], pr[2], Dir(m, m.edges[i], pr[1])
                                                  = Dir(m, m.edges[i], pr[2])>> :
                                    pr \in {q \in lf \X lf : q[1] < q[2]}} :
                           i \in 1..Len(m.edges)}
    IN  \E flip \in [0..(n - 1) -> BOOLEAN] :
            \A t \in adjacent : t[3] <=> (flip[t[1]] # flip[t[2]])

Doubled ==
    pc \in {"scan", "positive", "negative", "consolidate", "tag", "classify",
            "polyhedra_ob", "frame"}

\* C6: for a mesh of n faces the doubled mesh has 2n faces; index 2k holds
\* the vertex loop of face k and index 2k+1 the same loop reversed; the
\* face-index function sends +(k+1) to 2k and -(k+1) to 2k+1 and is a
\* bijection from the signed ids onto 0..2n-1.
C6_DoubledEncoding ==
    Doubled =>
        /\ Len(bm1) = 2 * n_faces
        /\ \A k \in 0..(n_faces - 1) :
              /\ bm1[2 * k + 1].co = bm.faces[k + 1]
              /\ bm1[2 * k + 2].co = Reverse(bm.faces[k + 1])
              /\ FaceId(k + 1) = 2 * k
              /\ FaceId(-(k + 1)) = 2 * k + 1
        /\ {FaceId(f) : f \in SignedIds} = 0..(2 * n_faces - 1)
        /\ \A f, g \in SignedIds : FaceId(f) = FaceId(g) => f = g

\* the doubled faces of a mesh whose edges were split are built
C6_Witness ==
    /\ pc = "scan"
    /\ Len(bm1) = 2 * n_faces
    /\ n_faces >= 4
    /\ bm.faces # Meshes[me].faces
    /\ bm1[2].co # bm1[1].co

\* the tagging has run and bm1 still holds the doubled faces at their indices
Tagged == pc \in {"classify", "polyhedra_ob", "frame", "displace", "delete"}

\* C5 as claimed: after the tagging, for every polyhedron at position i
\* (0-based) and every member f, the face instance f denotes, at the face
\* index of f, carries the tag i.
C5_TagOfMember ==
    Tagged =>
        \A i \in 1..Len(polyhedra) : \A k \in 1..Len(polyhedra[i]) :
            bm1[FaceId(polyhedra[i][k]) + 1].material_index = i - 1

\* C3 as claimed: a mesh with an edge of fewer than 2 faces ends with the
\* report, the result CANCELLED and no object.
C3_NakedEdgeCancels ==
    (~NoNakedEdges /\ pc = "end") =>
        /\ status = "CANCELLED"
        /\ Len(reported) > 0
        /\ objects = <<>>

\* C8 as claimed: on a mesh without naked edges no division by zero is
\* propagated and the run ends with FINISHED.
C8_NoDivisionByZero ==
    /\ NoNakedEdges => status # "ZeroDivisionError"
    /\ (NoNakedEdges /\ pc = "end") => status = "FINISHED"

\* the edges of the input mesh, in scan order, that have the greatest length
LongestEdges ==
    {ei \in 1..Len(WireLength(me, rot)) :
        WireLength(me, rot)[ei] = MaxOf(WireLength(me, rot))}

\* C9 as claimed: with subdivisions = s > 1 the pre-subdivision splits the
\* longest edges into s segments, and no edge into more than s.
C9_LongestEdgeSplit ==
    (pc = "double" /\ subdivisions > 1) =>
        /\ \A ei \in LongestEdges : segments[ei] = subdivisions
        /\ \A ei \in 1..Len(segments) : segments[ei] <= subdivisions

\* the discard branch of the classification is about to be taken
DiscardCase ==
    /\ pc = "classify"
    /\ Len(WireframeFacesPoly(polyhedra[p_idx], delete_faces)) < 2

\* no run reaches the discard branch of the classification
DiscardNeverTaken == ~DiscardCase /\ not_wireframe_faces = <<>>

\* the list qs is the list ps after one merge of (id1, id2), as C11 states it
MergeEffect(ps, qs, id1, id2) ==
    LET holders == {k \in 1..Len(ps) : {id1, id2} \cap IdSet(ps[k]) # {}}
    IN  IF holders = {}
        THEN /\ Len(qs) = Len(ps) + 1
             /\ \A j \in 1..Len(ps) : qs[j] = ps[j]
             /\ qs[Len(qs)] = <<id1, id2>>
        ELSE LET k == CHOOSE h \in holders : \A g \in holders : h <= g
                 lack == {id1, id2} \ IdSet(ps[k])
             IN  /\ Len(qs) = Len(ps)
                 /\ \A j \in 1..Len(ps) : j # k => qs[j] = ps[j]
                 /\ SubSeq(qs[k], 1, Len(ps[k])) = ps[k]
                 /\ Len(qs[k]) = Len(ps[k]) + Cardinality(lack)
                 /\ IdSet(qs[k]) = IdSet(ps[k]) \cup lack

\* C11: every merge of a pairing (id1, id2) changes exactly one polyhedron:
\* the first polyhedron holding id1 or id2 gains exactly the ids it lacks
\* and nothing else changes, or, when none holds them, [id1, id2] is
\* appended and nothing else changes.
C11_MergeFrame ==
    [][Len(sel') = 1 => MergeEffect(polyhedra, polyhedra', sel'[1].id1, sel'[1].id2)]_vars

\* a merge has just added its root to a polyhedron that is not the last of
\* the list and held the partner already
C11_Witness ==
    /\ Len(sel) = 1
    /\ \E k \in 1..(Len(polyhedra) - 1) :
          /\ Len(polyhedra[k]) > 2
          /\ polyhedra[k][Len(polyhedra[k])] = sel[1].id1
          /\ Contains(polyhedra[k], sel[1].id2)

\* the loop f goes from vertex u directly to vertex v
Traverses(f, u, v) == \E i \in 1..Len(f) : f[i] = u /\ f[(i % Len(f)) + 1] = v

\* the loops fa and fb run along the edge e in the same direction
SameDirection(fa, fb, e) ==
    \/ Traverses(fa, e[1], e[2]) /\ Traverses(fb, e[1], e[2])
    \/ Traverses(fa, e[2], e[1]) /\ Traverses(fb, e[2], e[1])

\* any two faces of the working mesh that share an edge run along it in
\* opposite directions
ConsistentlyWound ==
    \A i \in 1..Len(bm.edges) : \A a, b \in LinkFaces(bm, bm.edges[i]) :
        a # b => ~SameDirection(bm.faces[a + 1], bm.faces[b + 1], bm.edges[i])

C13_FirstMinimum ==
    (Len(sel) = 1 /\ sel[1].id2 # None) =>
        \E k \in 1..Len(sel[1].faces2) :
            /\ sel[1].id2 = HalfSign(sel[1].half) * sel[1].faces2[k]
            /\ \A j \in 1..Len(sel[1].faces2) : sel[1].angles[k] <= sel[1].angles[j]
            /\ \A j \in 1..(k - 1) : sel[1].angles[k] < sel[1].angles[j]

\* a negative selection among three candidates, the last two tied at the
\* minimum, has taken the first of the two
C13_Witness ==
    /\ Len(sel) = 1
    /\ sel[1].half = "negative"
    /\ Len(sel[1].faces2) = 3
    /\ sel[1].angles[1] > sel[1].angles[2]
    /\ sel[1].angles[2] = sel[1].angles[3]
    /\ sel[1].id2 = -sel[1].faces2[2]

\* None is stored in no polyhedron and not in the done list
NoneNeverStored ==
    /\ ~Contains(done, None)
    /\ \A k \in 1..Len(polyhedra) : ~Contains(polyhedra[k], None)

\* C14 as claimed: a selection that finds no candidate (id2 is None) leaves
\* the polyhedra list and the done list as they are, and None is never
\* stored in a polyhedron or in the done list.
C14_MissingPairSkipped ==
    /\ [][(Len(sel') = 1 /\ sel'[1].id2 = None)
            => (polyhedra' = polyhedra /\ done' = done)]_vars
    /\ []NoneNeverStored

\* the root of the half the scan is about to run
Root == IF pc = "positive" THEN link[i1 + 1] + 1 ELSE -(link[i1 + 1] + 1)

\* C15: the done list is empty when the processing of an edge starts; an id
\* selected as a partner at an edge is not used afterwards as a root at
\* that edge; and a root is passed over only for a selection made at its
\* own edge.
C15_DonePerEdge ==
    /\ []((pc = "positive" /\ i1 = 0) => (done = <<>> /\ partners = {}))
    /\ [][/\ Len(sel') = 1 => sel'[1].id1 \notin partners
          /\ (pc \in {"positive", "negative"} /\ Len(sel') = 0) => Root \in partners]_vars

\* the positive half has just passed over a root that was selected as a
\* partner at this edge
C15_Witness ==
    /\ pc = "negative"
    /\ Len(sel) = 0
    /\ i1 >= 1
    /\ (link[i1 + 1] + 1) \in partners
    /\ Contains(done, link[i1 + 1] + 1)

\* C16: no bm1.faces[i] is evaluated between an operation that adds or
\* removes faces of bm1 (faces.new, remove_doubles, delete) and the next
\* ensure_lookup_table.
C16_NoStaleLookup == ~stale_lookup

\* the faces of bm1 were created, welded per polyhedron, extended by the
\* ribbons and deleted, with lookups in between, and the run has finished
C16_Witness ==
    /\ status = "FINISHED"
    /\ Len(polyhedra) >= 2
    /\ Len(delete_faces) > 0
    /\ ~table_stale

\* the pairings that hold the signed id
PairingsOf(id) == {pr \in pairings : id \in pr}

\* C17: for an edge with k >= 2 faces at pairwise distinct angles, each
\* selection returning the candidate angularly nearest on the root's side,
\* the processing of the edge makes exactly k selections, emits exactly k
\* pairings, and each of the 2k signed instances of its faces is in
\* exactly one of them.
C17_FanPairings ==
    pc = "consolidate" =>
        /\ Len(done) = Len(link)
        /\ Cardinality(pairings) = Len(link)
        /\ \A id \in SignedIds : Cardinality(PairingsOf(id)) = 1

\* the edge of a fan of 4 faces, not all running the same way and not met in
\* angular order, is processed
C17_Witness ==
    /\ pc = "consolidate"
    /\ Len(link) = 4
    /\ around # <<0, 1, 2, 3>>
    /\ \E a, b \in 0..3 : Dir(bm, bm.edges[1], a) # Dir(bm, bm.edges[1], b)
    /\ Cardinality(pairings) = 4

\* the original faces whose instances the polyhedron p holds
OriginalFaces(p) == {IF id > 0 THEN id ELSE -id : id \in IdSet(p)}

Members(ps) == UNION PolySets(ps)

\* the pass maps the list ps to a list of the same members and of no more
\* polyhedra, on which a second pass changes nothing but the order
PassPreserves(ps, r) ==
    /\ Members(r) = Members(ps)
    /\ Len(r) <= Len(ps)
    /\ PolySets(Consolidation(r, n_doubles)) = PolySets(r)
    /\ Len(Consolidation(r, n_doubles)) = Len(r)

\* C19: the consolidation pass keeps the union of the members, does not
\* increase the number of polyhedra, and a second pass on its result gives
\* the same set of id sets. Stated of the pass the run performs and of the
\* pass applied to the list the scan has built after every edge.
C19_PassIdempotent ==
    /\ pc \in {"scan", "consolidate"} =>
          PassPreserves(polyhedra, Consolidation(polyhedra, n_doubles))
    /\ pc = "tag" => PassPreserves(polyhedra0, polyhedra)

\* the pass has joined polyhedra of the scan into two or more polyhedra, and
\* a second pass on its result gives the same set of id sets
C19_Witness ==
    /\ pc = "tag"
    /\ Len(polyhedra) < Len(polyhedra0)
    /\ Len(polyhedra) >= 2
    /\ PolySets(Consolidation(polyhedra, n_doubles)) = PolySets(polyhedra)

\* the objects that shared a datablock at entry
SharedAtEntry(o1, o2) ==
    /\ objects0[o1].type = "MESH"
    /\ objects0[o2].type = "MESH"
    /\ objects0[o1].data = objects0[o2].data

\* C20: dual_mesh.execute runs the conversion steps at most once on every
\* datablock of entry, so that no data is converted twice, and after the
\* run the objects that shared a datablock at entry share their data.
C20_ConvertedOnce ==
    /\ \A d \in 1..Len(runs) : runs[d] <= 1
    /\ \A d \in 1..Len(meshes) : meshes[d].duals <= 1
    /\ pc = "end" =>
          \A o1, o2 \in 1..Len(bpy_objects) :
              SharedAtEntry(o1, o2) => bpy_objects[o1].data = bpy_objects[o2].data

\* the offset, rotation and scale a conversion reads from the dict d
OffsetOf(d) == Get(d, "offset", <<0, 0>>)
RotationOf(d) == Get(d, "rotation", 0)
ScaleOf(d) == Get(d, "scale", <<Unit, Unit>>)

\* one conversion has been applied to the result of the other
RoundTrip ==
    applied \in {<<"blender_to_gltf", "gltf_to_blender">>,
                 <<"gltf_to_blender", "blender_to_gltf">>}

\* scale[1] * sin(rotation) and scale[1] * cos(rotation) of the dict d
SinTerm(d) == FlMul(ScaleOf(d)[2], sin(RotationOf(d)))
CosTerm(d) == FlMul(ScaleOf(d)[2], cos(RotationOf(d)))

\* n is a float
IsFloat(n) == FlScaled(n, 1) = n

\* none of the sums of the two conversions of the dict d is rounded
NoRounding(d) ==
    /\ IsFloat(OffsetOf(d)[1] - SinTerm(d))
    /\ IsFloat(OffsetOf(d)[1] + SinTerm(d))
    /\ IsFloat(Unit - OffsetOf(d)[2])
    /\ IsFloat(Unit - OffsetOf(d)[2] - CosTerm(d))
    /\ IsFloat(OffsetOf(d)[2] + CosTerm(d))

====
